---------------------------- MODULE Spec2Model ----------------------------
(***************************************************************************)
(* Ledger store, latest-ledger cache, ingestion transaction and the        *)
(* getTransaction query of soroban-rpc.                                    *)
(*                                                                         *)
(*   db/ledger.go  (src/unnamed/part_000, lines 42-235): ledgerReader,     *)
(*                  ledgerWriter                                           *)
(*   methods/get_transaction.go: GetTransaction                            *)
(*                                                                         *)
(* The write transaction that drives InsertLedger and trimLedgers, the     *)
(* transaction table and its reader, and the format helpers live in files  *)
(* that are not part of the source slice; they are modelled from the       *)
(* design document and are marked as such where they are defined.          *)
(***************************************************************************)
EXTENDS Integers, Sequences, FiniteSets, TLC

(***************************************************************************)
(* Bounds of the model.                                                    *)
(***************************************************************************)
\* Highest ledger sequence the ingester delivers.
MaxSeq == 3
\* Modulus of the unsigned sequence arithmetic.  Go's uint32 wraps at 2^32;
\* the model keeps the wrap-around but on a narrower word.
UintMod == 16

\* Retention windows tried: 1 .. MaxSeq.
MaxRetention == MaxSeq

\* len(xdr.Hash{}): a transaction hash is 32 bytes.
HashLen == 32

VARIABLES
  rows,             \* table ledger_close_meta, committed rows
  transactions,     \* table of indexed transactions, committed rows
  cache,            \* db.cache: latestLedgerSeq, latestLedgerCloseTime
  retentionWindow,  \* configured retention window
  ingestPc,         \* position of the write transaction
  ingestLedger,     \* ledger handed to the write transaction
  ingestErr,        \* error returned by the last ingest ("" = nil)
  txRows,           \* ledger_close_meta as seen inside the write transaction
  txTransactions,   \* transaction table as seen inside the write transaction
  ingested,         \* history: sequences of the committed ingests, in order
  client            \* the caller of the query surface and its locals

vars == <<rows, transactions, cache, retentionWindow, ingestPc, ingestLedger,
          ingestErr, txRows, txTransactions, ingested, client>>

storeVars == <<rows, transactions, cache, retentionWindow>>
ingestVars == <<ingestPc, ingestLedger, ingestErr, txRows, txTransactions, ingested>>

(***************************************************************************)
(* Unsigned arithmetic of the sequence numbers.                            *)
(***************************************************************************)
Wrap(x) == x % UintMod

(***************************************************************************)
(* Sealed ledgers.  The chain is what the network closed: ledger s has a   *)
(* fixed close time and a fixed list of transactions.                      *)
(***************************************************************************)
Rep(n, v) == [i \in 1..n |-> v]

\* Close times are non-decreasing in the sequence, with ties.
CloseTimeOf(s) == 1700 + (s \div 2)

TxCountOf(s) == s % 3

\* 32 equal bytes; high nibble a or b for the 1st or 2nd transaction, low
\* nibble the ledger.
HashOf(s, p) == Rep(HashLen, 16 * (9 + p) + s)

ChainTx(s, p) ==
  [ hash       |-> HashOf(s, p),
    successful |-> (s + p) % 2 = 0,
    feeBump    |-> p = 2,
    envelope   |-> <<1, s, p>>,
    result     |-> <<2, s, p>>,
    meta       |-> <<3, s, p>>,
    events     |-> IF s % 2 = 0 THEN <<(<<4, s, p>>)>> ELSE <<>> ]

ChainLedger(s) ==
  [ seq       |-> s,
    closeTime |-> CloseTimeOf(s),
    txs       |-> [p \in 1..TxCountOf(s) |-> ChainTx(s, p)] ]

NoLedger == [seq |-> 0, closeTime |-> 0, txs |-> <<>>]

\* xdr.LedgerCloseMeta accessors.
LedgerSequence(lcm) == lcm.seq
LedgerCloseTime(lcm) == lcm.closeTime

(***************************************************************************)
(* Table helpers.                                                          *)
(***************************************************************************)
SequencesOf(t) == {r.sequence : r \in t}

MinOf(S) == CHOOSE m \in S : \A x \in S : m <= x
MaxOf(S) == CHOOSE m \in S : \A x \in S : m >= x

\* ORDER BY sequence ASC over a set of rows.
RECURSIVE OrderBySequenceAsc(_)
OrderBySequenceAsc(t) ==
  IF t = {} THEN <<>>
  ELSE LET lo == MinOf(SequencesOf(t))
           first == {r \in t : r.sequence = lo}
           r1 == CHOOSE r \in first : TRUE
       IN <<r1>> \o OrderBySequenceAsc(t \ {r1})

(***************************************************************************)
(* ledgerWriter.                                                           *)
(***************************************************************************)
\* INSERT INTO ledger_close_meta VALUES (ledger.LedgerSequence(), ledger).
\* sequence is the primary key: a second row for a sequence is refused.
InsertLedgerConflict(t, ledger) == LedgerSequence(ledger) \in SequencesOf(t)

InsertLedger(t, ledger) ==
  t \cup {[sequence |-> LedgerSequence(ledger), meta |-> ledger]}

\* if latestLedgerSeq+1 <= retentionWindow { return nil }
TrimIsNoop(latestLedgerSeq, window) == Wrap(latestLedgerSeq + 1) <= window

\* cutoff := latestLedgerSeq + 1 - retentionWindow
TrimCutoff(latestLedgerSeq, window) == Wrap(latestLedgerSeq + 1 - window)

\* Variant: the cutoff is taken one too low (latestLedgerSeq - window).
trimLedgersOffByOne(t, latestLedgerSeq, window) ==
  IF TrimIsNoop(latestLedgerSeq, window) THEN t
  ELSE {r \in t : ~(r.sequence < TrimCutoff(latestLedgerSeq, window) - 1)}

\* Variant: the row at the cutoff is deleted too (<= for <).
trimLedgersInclusive(t, latestLedgerSeq, window) ==
  IF TrimIsNoop(latestLedgerSeq, window) THEN t
  ELSE {r \in t : ~(r.sequence <= TrimCutoff(latestLedgerSeq, window))}

\* DELETE FROM ledger_close_meta WHERE sequence < cutoff
trimLedgers(t, latestLedgerSeq, window) ==
  IF TrimIsNoop(latestLedgerSeq, window) THEN t
  ELSE {r \in t : ~(r.sequence < TrimCutoff(latestLedgerSeq, window))}

(***************************************************************************)
(* Transaction table (modelled from the design document, section 4.4).     *)
(***************************************************************************)
TxRow(ledger, p) ==
  [ hash             |-> ledger.txs[p].hash,
    ledgerSequence   |-> ledger.seq,
    closeTime        |-> ledger.closeTime,
    applicationOrder |-> p,
    successful       |-> ledger.txs[p].successful,
    feeBump          |-> ledger.txs[p].feeBump,
    envelope         |-> ledger.txs[p].envelope,
    result           |-> ledger.txs[p].result,
    meta             |-> ledger.txs[p].meta,
    events           |-> ledger.txs[p].events ]

LedgerTxRows(ledger) == {TxRow(ledger, p) : p \in 1..Len(ledger.txs)}

\* hash is the primary key of the transaction table.
InsertTransactionsConflict(t, ledger) ==
  \/ \E r \in t : \E n \in LedgerTxRows(ledger) : r.hash = n.hash
  \/ \E p, q \in 1..Len(ledger.txs) : p # q /\ ledger.txs[p].hash = ledger.txs[q].hash

InsertTransactions(t, ledger) == t \cup LedgerTxRows(ledger)

\* trim(cutoff): DELETE WHERE ledger_sequence < cutoff, same window as the
\* ledger table.
trimTransactions(t, latestLedgerSeq, window) ==
  IF TrimIsNoop(latestLedgerSeq, window) THEN t
  ELSE {r \in t : ~(r.ledgerSequence < TrimCutoff(latestLedgerSeq, window))}

(***************************************************************************)
(* Store transaction (design document, section 4.2): what is written       *)
(* inside the transaction becomes the committed table on commit and is     *)
(* dropped on rollback.                                                    *)
(***************************************************************************)
Commit(committed, working) == working
Rollback(committed, working) == committed

(***************************************************************************)
(* Ingestion transaction apply(sealed_ledger, retention_window) (design    *)
(* document, section 4.6), one action per step.                            *)
(***************************************************************************)
LedgerInputs == {ChainLedger(s) : s \in 1..MaxSeq}

\* Variant: the latest sequence itself is accepted again (>= for >).
InOrderNonStrict(ledger) == LedgerSequence(ledger) >= cache.latestLedgerSeq

\* Step 1: strict monotonicity against the cached latest sequence.
InOrder(ledger) == LedgerSequence(ledger) > cache.latestLedgerSeq

ApplyBegin(ledger) ==
  /\ ingestPc = "idle"
  /\ IF InOrder(ledger)
       THEN /\ ingestPc' = "insertLedger"
            /\ ingestErr' = ""
            /\ txRows' = rows
            /\ txTransactions' = transactions
       ELSE /\ ingestPc' = "idle"
            /\ ingestErr' = "OutOfOrder"
            /\ txRows' = {}
            /\ txTransactions' = {}
  /\ ingestLedger' = ledger
  /\ UNCHANGED <<storeVars, ingested, client>>

\* The transaction is abandoned: rolled back, the error returned.
Abort(err) ==
  /\ rows' = Rollback(rows, txRows)
  /\ transactions' = Rollback(transactions, txTransactions)
  /\ ingestPc' = "idle"
  /\ ingestErr' = err
  /\ ingestLedger' = NoLedger
  /\ txRows' = {}
  /\ txTransactions' = {}
  /\ UNCHANGED <<cache, retentionWindow, ingested, client>>

\* Variant: the insert is not run with the transaction's statement cache
\* and lands in the committed table at once.
ApplyInsertLedgerOutsideTransaction ==
  /\ ingestPc = "insertLedger"
  /\ IF InsertLedgerConflict(txRows, ingestLedger)
       THEN Abort("Conflict")
       ELSE /\ txRows' = InsertLedger(txRows, ingestLedger)
            /\ rows' = InsertLedger(rows, ingestLedger)
            /\ ingestPc' = "insertTransactions"
            /\ UNCHANGED <<transactions, cache, retentionWindow, ingestLedger,
                           ingestErr, txTransactions, ingested, client>>

\* Step 2.
ApplyInsertLedger ==
  /\ ingestPc = "insertLedger"
  /\ IF InsertLedgerConflict(txRows, ingestLedger)
       THEN Abort("Conflict")
       ELSE /\ txRows' = InsertLedger(txRows, ingestLedger)
            /\ ingestPc' = "insertTransactions"
            /\ UNCHANGED <<storeVars, ingestLedger, ingestErr, txTransactions,
                           ingested, client>>

\* Step 3.
ApplyInsertTransactions ==
  /\ ingestPc = "insertTransactions"
  /\ IF InsertTransactionsConflict(txTransactions, ingestLedger)
       THEN Abort("Conflict")
       ELSE /\ txTransactions' = InsertTransactions(txTransactions, ingestLedger)
            /\ ingestPc' = "trim"
            /\ UNCHANGED <<storeVars, ingestLedger, ingestErr, txRows,
                           ingested, client>>

\* Step 4.
ApplyTrim ==
  /\ ingestPc = "trim"
  /\ txRows' = trimLedgers(txRows, LedgerSequence(ingestLedger), retentionWindow)
  /\ txTransactions' = trimTransactions(txTransactions,
                                        LedgerSequence(ingestLedger), retentionWindow)
  /\ ingestPc' = "commit"
  /\ UNCHANGED <<storeVars, ingestLedger, ingestErr, ingested, client>>

\* Step 5.
ApplyCommit ==
  /\ ingestPc = "commit"
  /\ rows' = Commit(rows, txRows)
  /\ transactions' = Commit(transactions, txTransactions)
  /\ ingested' = Append(ingested, LedgerSequence(ingestLedger))
  /\ ingestPc' = "updateCache"
  /\ txRows' = {}
  /\ txTransactions' = {}
  /\ UNCHANGED <<cache, retentionWindow, ingestLedger, ingestErr, client>>

\* Step 6.  The cache is written under its exclusive lock, which waits for
\* the readers to release theirs.
ApplyUpdateCache ==
  /\ ingestPc = "updateCache"
  /\ ~client.cacheRLocked
  /\ cache' = [latestLedgerSeq       |-> LedgerSequence(ingestLedger),
               latestLedgerCloseTime |-> LedgerCloseTime(ingestLedger)]
  /\ ingestPc' = "idle"
  /\ ingestLedger' = NoLedger
  /\ UNCHANGED <<rows, transactions, retentionWindow, ingestErr, txRows,
                 txTransactions, ingested, client>>

\* A statement or the commit fails (IoError, Busy): the step's error.
StepError(pc) ==
  CASE pc = "insertLedger"       -> "InsertLedgerFailed"
    [] pc = "insertTransactions" -> "InsertTransactionsFailed"
    [] pc = "trim"               -> "TrimFailed"
    [] pc = "commit"             -> "CommitFailed"

ApplyFail ==
  /\ ingestPc \in {"insertLedger", "insertTransactions", "trim", "commit"}
  /\ Abort(StepError(ingestPc))

Ingest ==
  \/ \E ledger \in LedgerInputs : ApplyBegin(ledger)
  \/ ApplyInsertLedger
  \/ ApplyInsertTransactions
  \/ ApplyTrim
  \/ ApplyCommit
  \/ ApplyUpdateCache
  \/ ApplyFail

(***************************************************************************)
(* ledgerReader.GetLedgerRange.                                            *)
(***************************************************************************)
ZeroLedgerInfo == [Sequence |-> 0, CloseTime |-> 0]
\* ledgerbucketwindow.LedgerRange{}
ZeroLedgerRange == [FirstLedger |-> ZeroLedgerInfo, LastLedger |-> ZeroLedgerInfo]

LedgerInfoOf(lcm) ==
  [Sequence |-> LedgerSequence(lcm), CloseTime |-> LedgerCloseTime(lcm)]

\* SELECT meta FROM ledger_close_meta
\*   WHERE sequence = (SELECT MIN(sequence) FROM ledger_close_meta)
SelectMinRow(t) ==
  IF t = {} THEN <<>>
  ELSE OrderBySequenceAsc({r \in t : r.sequence = MinOf(SequencesOf(t))})

\* SELECT lcm.meta FROM ledger_close_meta as lcm
\*   WHERE (lcm.sequence = (SELECT MIN(sequence) ...)
\*       OR lcm.sequence = (SELECT MAX(sequence) ...)) ORDER BY lcm.sequence ASC
SelectMinMaxRows(t) ==
  IF t = {} THEN <<>>
  ELSE OrderBySequenceAsc({r \in t : \/ r.sequence = MinOf(SequencesOf(t))
                                     \/ r.sequence = MaxOf(SequencesOf(t))})

\* Variant: the fast path takes the last ledger from the queried row too.
RangeFastPathLastFromRow(latestLedgerSeqCache, latestLedgerCloseTimeCache, t) ==
  LET lcm == SelectMinRow(t)
  IN IF Len(lcm) = 0
       THEN [range |-> ZeroLedgerRange, err |-> "ErrEmptyDB"]
       ELSE [range |-> [FirstLedger |-> LedgerInfoOf(lcm[1].meta),
                        LastLedger  |-> LedgerInfoOf(lcm[Len(lcm)].meta)],
             err |-> ""]

\* Variant: with no row the fast path answers from the cache alone.
RangeFastPathNoEmptyCheck(latestLedgerSeqCache, latestLedgerCloseTimeCache, t) ==
  LET lcm == SelectMinRow(t)
      last == [Sequence  |-> latestLedgerSeqCache,
               CloseTime |-> latestLedgerCloseTimeCache]
  IN [range |-> [FirstLedger |-> IF Len(lcm) = 0 THEN last
                                 ELSE LedgerInfoOf(lcm[1].meta),
                 LastLedger  |-> last],
      err |-> ""]

\* if latestLedgerSeqCache != 0 { ... }: only the oldest ledger is queried.
RangeFastPath(latestLedgerSeqCache, latestLedgerCloseTimeCache, t) ==
  LET lcm == SelectMinRow(t)
  IN IF Len(lcm) = 0
       THEN [range |-> ZeroLedgerRange, err |-> "ErrEmptyDB"]
       ELSE [range |-> [FirstLedger |-> LedgerInfoOf(lcm[1].meta),
                        LastLedger  |-> [Sequence  |-> latestLedgerSeqCache,
                                         CloseTime |-> latestLedgerCloseTimeCache]],
             err |-> ""]

\* Variant: the slow path takes the last ledger from result[0] too.
RangeSlowPathLastIsFirst(t) ==
  LET lcms == SelectMinMaxRows(t)
  IN IF Len(lcms) = 0
       THEN [range |-> ZeroLedgerRange, err |-> "ErrEmptyDB"]
       ELSE [range |-> [FirstLedger |-> LedgerInfoOf(lcms[1].meta),
                        LastLedger  |-> LedgerInfoOf(lcms[1].meta)],
             err |-> ""]

RangeSlowPath(t) ==
  LET lcms == SelectMinMaxRows(t)
  IN IF Len(lcms) = 0
       THEN [range |-> ZeroLedgerRange, err |-> "ErrEmptyDB"]
       ELSE [range |-> [FirstLedger |-> LedgerInfoOf(lcms[1].meta),
                        LastLedger  |-> LedgerInfoOf(lcms[Len(lcms)].meta)],
             err |-> ""]

\* The part of GetLedgerRange after the cache has been read.
GetLedgerRangeQuery(latestLedgerSeqCache, latestLedgerCloseTimeCache, t) ==
  IF latestLedgerSeqCache # 0
    THEN RangeFastPath(latestLedgerSeqCache, latestLedgerCloseTimeCache, t)
    ELSE RangeSlowPath(t)

\* r.db.Select fails.
RangeQueryFailed == [range |-> ZeroLedgerRange, err |-> "couldn't query ledger range"]

(***************************************************************************)
(* GetTransaction: request validation.                                     *)
(***************************************************************************)
\* jrpc2 error codes.
InvalidParams == -32602
InternalError == -32603

NoError == [Code |-> 0, Message |-> <<>>]

TransactionStatusSuccess == "SUCCESS"
TransactionStatusNotFound == "NOT_FOUND"
TransactionStatusFailed == "FAILED"

FormatBase64 == "base64"
FormatJSON == "json"

\* IsValidFormat (methods package, modelled from the request schema of the
\* design document): nil for an absent format, "base64" and "json".
IsValidFormat(format) ==
  IF format \in {"", FormatBase64, FormatJSON} THEN "" ELSE "invalid xdrFormat"

\* A string is the sequence of its characters.
HexDigits == <<"0", "1", "2", "3", "4", "5", "6", "7", "8", "9",
               "a", "b", "c", "d", "e", "f">>

\* encoding/hex: the value of a hex digit, 255 for any other character.
fromHexChar(c) ==
  IF \E i \in 1..16 : HexDigits[i] = c
    THEN (CHOOSE i \in 1..16 : HexDigits[i] = c) - 1
    ELSE 255

\* hex.DecodedLen
DecodedLen(n) == n \div 2

\* hex.Decode from the pair that ends at index j: pairs are decoded left to
\* right, the first character that is no hex digit ends the decoding, and an
\* odd length is reported after the last full pair.
RECURSIVE hexDecodeFrom(_, _)
hexDecodeFrom(src, j) ==
  IF j <= Len(src)
    THEN LET a == fromHexChar(src[j - 1])
             b == fromHexChar(src[j])
         IN IF a > 15 \/ b > 15
              THEN [bytes |-> <<>>, err |-> "invalid byte"]
              ELSE LET rest == hexDecodeFrom(src, j + 2)
                   IN [bytes |-> <<16 * a + b>> \o rest.bytes, err |-> rest.err]
    ELSE IF Len(src) % 2 = 1
           THEN IF fromHexChar(src[j - 1]) > 15
                  THEN [bytes |-> <<>>, err |-> "invalid byte"]
                  ELSE [bytes |-> <<>>, err |-> "odd length hex string"]
           ELSE [bytes |-> <<>>, err |-> ""]

hexDecode(src) == hexDecodeFrom(src, 2)

\* Variant: the result of hex.Decode is not checked.
ValidateRequestNoDecodeCheck(request) ==
  IF IsValidFormat(request.Format) # ""
    THEN [Code |-> InvalidParams, Message |-> <<IsValidFormat(request.Format)>>]
  ELSE IF DecodedLen(Len(request.Hash)) # HashLen
    THEN [Code |-> InvalidParams,
          Message |-> <<"unexpected hash length", Len(request.Hash)>>]
  ELSE NoError

\* Lines 84-106: the error the request is rejected with, NoError if none.
ValidateRequest(request) ==
  IF IsValidFormat(request.Format) # ""
    THEN [Code |-> InvalidParams, Message |-> <<IsValidFormat(request.Format)>>]
  ELSE IF DecodedLen(Len(request.Hash)) # HashLen
    THEN [Code |-> InvalidParams,
          Message |-> <<"unexpected hash length", Len(request.Hash)>>]
  ELSE IF hexDecode(request.Hash).err # ""
    THEN [Code |-> InvalidParams,
          Message |-> <<"incorrect hash", hexDecode(request.Hash).err>>]
  ELSE NoError

(***************************************************************************)
(* GetTransaction: the response.                                           *)
(***************************************************************************)
\* GetTransactionResponse{}
ZeroResponse ==
  [ Status |-> "",
    LatestLedger |-> 0, LatestLedgerCloseTime |-> 0,
    OldestLedger |-> 0, OldestLedgerCloseTime |-> 0,
    ApplicationOrder |-> 0, FeeBump |-> FALSE,
    EnvelopeXDR |-> <<>>, EnvelopeJSON |-> <<>>,
    ResultXDR |-> <<>>, ResultJSON |-> <<>>,
    ResultMetaXDR |-> <<>>, ResultMetaJSON |-> <<>>,
    Ledger |-> 0, LedgerCloseTime |-> 0,
    DiagnosticEventsXDR |-> <<>>, DiagnosticEventsJSON |-> <<>> ]

\* db.Transaction{}
ZeroTransaction ==
  [ Result |-> <<>>, Meta |-> <<>>, Envelope |-> <<>>, Events |-> <<>>,
    FeeBump |-> FALSE, ApplicationOrder |-> 0, Successful |-> FALSE,
    Ledger |-> ZeroLedgerInfo ]

\* db.TransactionReader.GetTransaction (design document, section 4.4):
\* point lookup by hash.
TransactionReaderGet(t, hash) ==
  IF \E r \in t : r.hash = hash
    THEN LET r == CHOOSE x \in t : x.hash = hash
         IN [tx |-> [ Result |-> r.result, Meta |-> r.meta,
                      Envelope |-> r.envelope, Events |-> r.events,
                      FeeBump |-> r.feeBump,
                      ApplicationOrder |-> r.applicationOrder,
                      Successful |-> r.successful,
                      Ledger |-> [Sequence |-> r.ledgerSequence,
                                  CloseTime |-> r.closeTime] ],
             err |-> ""]
    ELSE [tx |-> ZeroTransaction, err |-> "ErrNoTransaction"]

TransactionReaderFailed == [tx |-> ZeroTransaction, err |-> "db error"]

\* base64.StdEncoding.EncodeToString: the string as the sequence of its
\* characters' indices in the base64 alphabet, 64 for the padding '='.
RECURSIVE Base64Encode(_)
Base64Encode(b) ==
  IF Len(b) = 0 THEN <<>>
  ELSE IF Len(b) = 1
    THEN <<b[1] \div 4, (b[1] % 4) * 16, 64, 64>>
  ELSE IF Len(b) = 2
    THEN <<b[1] \div 4, (b[1] % 4) * 16 + (b[2] \div 16), (b[2] % 16) * 4, 64>>
  ELSE <<b[1] \div 4, (b[1] % 4) * 16 + (b[2] \div 16),
         (b[2] % 16) * 4 + (b[3] \div 64), b[3] % 64>>
       \o Base64Encode(SubSeq(b, 4, Len(b)))

\* base64EncodeSlice (methods package)
base64EncodeSlice(in) == [i \in 1..Len(in) |-> Base64Encode(in[i])]

\* transactionToJSON and jsonifySlice (methods package): the decoded,
\* structured form of a blob.
ToJSON(blob) == <<"json", blob>>
jsonifySlice(in) == [i \in 1..Len(in) |-> ToJSON(in[i])]

\* Variant: oldest and latest are exchanged.
RangeResponseSwapped(storeRange) ==
  [ZeroResponse EXCEPT
     !.LatestLedger = storeRange.FirstLedger.Sequence,
     !.LatestLedgerCloseTime = storeRange.FirstLedger.CloseTime,
     !.OldestLedger = storeRange.LastLedger.Sequence,
     !.OldestLedgerCloseTime = storeRange.LastLedger.CloseTime]

\* Lines 118-123.
RangeResponse(storeRange) ==
  [ZeroResponse EXCEPT
     !.LatestLedger = storeRange.LastLedger.Sequence,
     !.LatestLedgerCloseTime = storeRange.LastLedger.CloseTime,
     !.OldestLedger = storeRange.FirstLedger.Sequence,
     !.OldestLedgerCloseTime = storeRange.FirstLedger.CloseTime]

\* Lines 137-140.
FoundResponse(response, tx) ==
  [response EXCEPT
     !.ApplicationOrder = tx.ApplicationOrder,
     !.FeeBump = tx.FeeBump,
     !.Ledger = tx.Ledger.Sequence,
     !.LedgerCloseTime = tx.Ledger.CloseTime]

\* Lines 142-169.
BlobResponse(response, tx, format) ==
  IF format = FormatJSON
    THEN [response EXCEPT
            !.ResultJSON = ToJSON(tx.Result),
            !.EnvelopeJSON = ToJSON(tx.Envelope),
            !.ResultMetaJSON = ToJSON(tx.Meta),
            !.DiagnosticEventsJSON = jsonifySlice(tx.Events)]
    ELSE [response EXCEPT
            !.ResultXDR = Base64Encode(tx.Result),
            !.EnvelopeXDR = Base64Encode(tx.Envelope),
            !.ResultMetaXDR = Base64Encode(tx.Meta),
            !.DiagnosticEventsXDR = base64EncodeSlice(tx.Events)]

\* Variant: the status does not look at tx.Successful.
StatusOfAlwaysSuccess(tx) == TransactionStatusSuccess

\* Lines 171-174.
StatusOf(tx) ==
  IF tx.Successful THEN TransactionStatusSuccess ELSE TransactionStatusFailed

\* Lines 116-176: what GetTransaction returns for the reader's answer got;
\* convErr is the error of the JSON conversion ("" = nil).
GetTransactionResult(storeRange, request, got, convErr) ==
  LET response == RangeResponse(storeRange)
  IN IF got.err = "ErrNoTransaction"
       THEN [response |-> [response EXCEPT !.Status = TransactionStatusNotFound],
             err |-> NoError]
     ELSE IF got.err # ""
       THEN [response |-> response,
             err |-> [Code |-> InternalError, Message |-> <<got.err>>]]
     ELSE IF request.Format = FormatJSON /\ convErr # ""
       THEN [response |-> FoundResponse(response, got.tx),
             err |-> [Code |-> InternalError, Message |-> <<convErr>>]]
     ELSE [response |->
             [BlobResponse(FoundResponse(response, got.tx), got.tx, request.Format)
                EXCEPT !.Status = StatusOf(got.tx)],
           err |-> NoError]

(***************************************************************************)
(* The caller.  One call is in progress at a time; its locals are fields   *)
(* of client.                                                              *)
(***************************************************************************)
ZeroRequest == [Hash |-> <<>>, Format |-> ""]

IdleClient ==
  [ op |-> "none", pc |-> "idle",
    latestLedgerSeqCache |-> 0, latestLedgerCloseTimeCache |-> 0,
    storeRange |-> ZeroLedgerRange, rangeErr |-> "",
    request |-> ZeroRequest, txHash |-> <<>>,
    tx |-> ZeroTransaction, txErr |-> "",
    response |-> ZeroResponse, err |-> NoError,
    calls |-> <<>>,
    startLedger |-> 0, endLedger |-> 0,
    q |-> <<>>, delivered |-> <<>>, streamErr |-> "", fReturned |-> "",
    sequence |-> 0, results |-> <<>>, ledger |-> NoLedger, found |-> FALSE,
    ledgerErr |-> <<>>,
    cacheRLocked |-> FALSE,
    ingestedAtQuery |-> 0 ]

CallGetLedgerRange ==
  /\ client.pc = "idle"
  /\ client' = [IdleClient EXCEPT !.op = "GetLedgerRange", !.pc = "readCache",
                                  !.calls = <<"GetLedgerRange">>]
  /\ UNCHANGED <<storeVars, ingestVars>>

\* The hash strings requested: the hashes of the chain's transactions, a
\* hash no ledger holds, and malformed ones.
HashString(s, p) ==
  [i \in 1..(2 * HashLen) |-> IF i % 2 = 1 THEN HexDigits[9 + p + 1]
                                            ELSE HexDigits[s + 1]]

\* Ledger 3 holds no transaction: HashString(3, 1) is never indexed.
WellFormedHashes ==
  {HashString(1, 1), HashString(2, 1), HashString(2, 2), HashString(3, 1)}

MalformedHashes ==
  { <<>>, <<"a", "b">>,
    Rep(2 * HashLen - 1, "a"), Rep(2 * HashLen + 1, "a"), Rep(2 * HashLen + 2, "a"),
    [Rep(2 * HashLen, "a") EXCEPT ![1] = "g"],
    [Rep(2 * HashLen, "a") EXCEPT ![2 * HashLen] = "g"],
    [Rep(2 * HashLen + 1, "a") EXCEPT ![2 * HashLen + 1] = "g"] }

Requests ==
  [Hash : WellFormedHashes, Format : {"", FormatJSON}]
  \cup [Hash : MalformedHashes, Format : {""}]
  \cup [Hash : {HashString(2, 1)}, Format : {FormatBase64, "xml"}]
  \cup [Hash : {<<"a", "b">>}, Format : {FormatJSON, "xml"}]

\* Lines 84-106.
CallGetTransaction(request) ==
  /\ client.pc = "idle"
  /\ client' =
       IF ValidateRequest(request) # NoError
         THEN [IdleClient EXCEPT !.op = "GetTransaction", !.pc = "done",
                                 !.request = request,
                                 !.err = ValidateRequest(request)]
         ELSE [IdleClient EXCEPT !.op = "GetTransaction", !.pc = "readCache",
                                 !.request = request,
                                 !.txHash = hexDecode(request.Hash).bytes,
                                 !.calls = <<"GetLedgerRange">>]
  /\ UNCHANGED <<storeVars, ingestVars>>

\* Variant: the read lock is released on return (defer), so it is still
\* held when the store is queried.
ReadCacheDeferUnlock ==
  /\ client.pc = "readCache"
  /\ client' = [client EXCEPT !.cacheRLocked = TRUE,
                              !.latestLedgerSeqCache = cache.latestLedgerSeq,
                              !.latestLedgerCloseTimeCache = cache.latestLedgerCloseTime,
                              !.pc = "queryStore"]
  /\ UNCHANGED <<storeVars, ingestVars>>

\* r.db.cache.RLock(); read both fields.
ReadCache ==
  /\ client.pc = "readCache"
  /\ client' = [client EXCEPT !.cacheRLocked = TRUE,
                              !.latestLedgerSeqCache = cache.latestLedgerSeq,
                              !.latestLedgerCloseTimeCache = cache.latestLedgerCloseTime,
                              !.pc = "unlockCache"]
  /\ UNCHANGED <<storeVars, ingestVars>>

\* r.db.cache.RUnlock()
UnlockCache ==
  /\ client.pc = "unlockCache"
  /\ client' = [client EXCEPT !.cacheRLocked = FALSE, !.pc = "queryStore"]
  /\ UNCHANGED <<storeVars, ingestVars>>

\* Variant: GetTransaction goes on to the lookup although GetLedgerRange
\* failed.
AfterGetLedgerRangeIgnoreError(c, res) ==
  IF c.op = "GetTransaction"
    THEN [c EXCEPT !.storeRange = res.range, !.rangeErr = res.err, !.pc = "lookup"]
    ELSE [c EXCEPT !.storeRange = res.range, !.rangeErr = res.err, !.pc = "done"]

\* What the caller of GetLedgerRange does with its result; GetTransaction:
\* lines 108-114.
AfterGetLedgerRange(c, res) ==
  IF c.op = "GetTransaction"
    THEN IF res.err # ""
           THEN [c EXCEPT !.rangeErr = res.err, !.pc = "done",
                          !.err = [Code |-> InternalError,
                                   Message |-> <<"unable to get ledger range", res.err>>]]
           ELSE [c EXCEPT !.storeRange = res.range, !.pc = "lookup"]
    ELSE [c EXCEPT !.storeRange = res.range, !.rangeErr = res.err, !.pc = "done"]

QueryStore ==
  /\ client.pc = "queryStore"
  /\ client' = AfterGetLedgerRange(client,
                  GetLedgerRangeQuery(client.latestLedgerSeqCache,
                                      client.latestLedgerCloseTimeCache, rows))
  /\ UNCHANGED <<storeVars, ingestVars>>

QueryStoreFail ==
  /\ client.pc = "queryStore"
  /\ client' = AfterGetLedgerRange(client, RangeQueryFailed)
  /\ UNCHANGED <<storeVars, ingestVars>>

\* Lines 116-176 for the reader's answer got.
Finish(c, got, convErr) ==
  LET res == GetTransactionResult(c.storeRange, c.request, got, convErr)
  IN [c EXCEPT !.tx = got.tx, !.txErr = got.err,
               !.response = res.response, !.err = res.err,
               !.calls = Append(c.calls, "GetTransaction"),
               !.pc = "done"]

LookupTransaction ==
  /\ client.pc = "lookup"
  /\ client' = Finish(client, TransactionReaderGet(transactions, client.txHash), "")
  /\ UNCHANGED <<storeVars, ingestVars>>

LookupTransactionFail ==
  /\ client.pc = "lookup"
  /\ client' = Finish(client, TransactionReaderFailed, "")
  /\ UNCHANGED <<storeVars, ingestVars>>

\* transactionToJSON or jsonifySlice returns an error.
LookupTransactionConvFail ==
  /\ client.pc = "lookup"
  /\ client.request.Format = FormatJSON
  /\ TransactionReaderGet(transactions, client.txHash).err = ""
  /\ client' = Finish(client, TransactionReaderGet(transactions, client.txHash),
                      "conversion failed")
  /\ UNCHANGED <<storeVars, ingestVars>>

(***************************************************************************)
(* ledgerReader.StreamLedgerRange.                                         *)
(***************************************************************************)
\* Variant: the start of the range is exclusive (Gt for GtOrEq).
InLedgerRangeExclusiveStart(sequence, startLedger, endLedger) ==
  sequence > startLedger /\ sequence <= endLedger

\* SELECT meta FROM ledger_close_meta
\*   WHERE sequence >= startLedger AND sequence <= endLedger
\*   ORDER BY sequence asc
InLedgerRange(sequence, startLedger, endLedger) ==
  sequence >= startLedger /\ sequence <= endLedger

SelectLedgerRange(t, startLedger, endLedger) ==
  LET hit == OrderBySequenceAsc(
               {r \in t : InLedgerRange(r.sequence, startLedger, endLedger)})
  IN [i \in 1..Len(hit) |-> hit[i].meta]

StreamBounds == 0..(MaxSeq + 1)

\* r.db.Query succeeds: q is the cursor over the result; ingestedAtQuery
\* notes how many ingests had committed (history, not read by the code).
CallStreamLedgerRange(startLedger, endLedger) ==
  /\ client.pc = "idle"
  /\ client' = [IdleClient EXCEPT
                  !.op = "StreamLedgerRange", !.pc = "stream",
                  !.startLedger = startLedger, !.endLedger = endLedger,
                  !.q = SelectLedgerRange(rows, startLedger, endLedger),
                  !.ingestedAtQuery = Len(ingested)]
  /\ UNCHANGED <<storeVars, ingestVars>>

\* r.db.Query fails.
CallStreamLedgerRangeFail(startLedger, endLedger) ==
  /\ client.pc = "idle"
  /\ client' = [IdleClient EXCEPT
                  !.op = "StreamLedgerRange", !.pc = "done",
                  !.startLedger = startLedger, !.endLedger = endLedger,
                  !.streamErr = "query failed",
                  !.ingestedAtQuery = Len(ingested)]
  /\ UNCHANGED <<storeVars, ingestVars>>

(***************************************************************************)
(* ledgerReader.StreamAllLedgers.  Its loop is the loop of                 *)
(* StreamLedgerRange: the actions below the two calls serve both.          *)
(***************************************************************************)
\* Variant: the scan starts after the oldest row.
SelectAllLedgersSkipOldest(t) ==
  LET hit == OrderBySequenceAsc(t)
  IN [i \in 1..(Len(hit) - 1) |-> hit[i + 1].meta]

\* SELECT meta FROM ledger_close_meta ORDER BY sequence asc
SelectAllLedgers(t) ==
  LET hit == OrderBySequenceAsc(t)
  IN [i \in 1..Len(hit) |-> hit[i].meta]

\* r.db.Query succeeds.
CallStreamAllLedgers ==
  /\ client.pc = "idle"
  /\ client' = [IdleClient EXCEPT
                  !.op = "StreamAllLedgers", !.pc = "stream",
                  !.q = SelectAllLedgers(rows),
                  !.ingestedAtQuery = Len(ingested)]
  /\ UNCHANGED <<storeVars, ingestVars>>

\* r.db.Query fails.
CallStreamAllLedgersFail ==
  /\ client.pc = "idle"
  /\ client' = [IdleClient EXCEPT
                  !.op = "StreamAllLedgers", !.pc = "done",
                  !.streamErr = "query failed",
                  !.ingestedAtQuery = Len(ingested)]
  /\ UNCHANGED <<storeVars, ingestVars>>

\* q.Next() is true, q.Scan succeeds, f(closeMeta) returns nil.
StreamDeliver ==
  /\ client.pc = "stream"
  /\ client.q # <<>>
  /\ client' = [client EXCEPT !.delivered = Append(@, Head(client.q)),
                              !.q = Tail(@)]
  /\ UNCHANGED <<storeVars, ingestVars>>

\* What a sink can return to end the stream.  StreamLedgerFn returns only an
\* error, so a sink that has seen enough says so with an error value of its
\* own ("done"), like one that failed ("sink error").
SinkErrors == {"done", "sink error"}

\* if err = f(closeMeta); err != nil { return err }
SinkReturn(err) == err

\* f(closeMeta) returns a non-nil error: it is returned, the cursor closed.
StreamSinkError(err) ==
  /\ client.pc = "stream"
  /\ client.q # <<>>
  /\ client' = [client EXCEPT !.delivered = Append(@, Head(client.q)),
                              !.q = <<>>,
                              !.fReturned = err,
                              !.streamErr = SinkReturn(err),
                              !.pc = "done"]
  /\ UNCHANGED <<storeVars, ingestVars>>

\* q.Scan returns an error.
StreamScanFail ==
  /\ client.pc = "stream"
  /\ client.q # <<>>
  /\ client' = [client EXCEPT !.q = <<>>, !.streamErr = "scan failed", !.pc = "done"]
  /\ UNCHANGED <<storeVars, ingestVars>>

\* q.Next() is false: return q.Err().
StreamEnd ==
  /\ client.pc = "stream"
  /\ client.q = <<>>
  /\ client' = [client EXCEPT !.pc = "done"]
  /\ UNCHANGED <<storeVars, ingestVars>>

(***************************************************************************)
(* ledgerReader.GetLedger.                                                 *)
(***************************************************************************)
\* SELECT meta FROM ledger_close_meta WHERE sequence = ?
SelectLedger(t, sequence) ==
  LET hit == OrderBySequenceAsc({r \in t : r.sequence = sequence})
  IN [i \in 1..Len(hit) |-> hit[i].meta]

\* Variant: of several rows the first is returned as found.
GetLedgerResultFirstOfMany(results, sequence) ==
  IF Len(results) = 0
    THEN [ledger |-> NoLedger, found |-> FALSE, err |-> <<>>]
    ELSE [ledger |-> results[1], found |-> TRUE, err |-> <<>>]

\* switch len(results)
GetLedgerResult(results, sequence) ==
  CASE Len(results) = 0 -> [ledger |-> NoLedger, found |-> FALSE, err |-> <<>>]
    [] Len(results) = 1 -> [ledger |-> results[1], found |-> TRUE, err |-> <<>>]
    [] OTHER -> [ledger |-> NoLedger, found |-> FALSE,
                 err |-> <<"multiple lcm entries", Len(results), sequence>>]

\* The call once r.db.Select has filled results.
GetLedgerReturn(sequence, results) ==
  LET res == GetLedgerResult(results, sequence)
  IN [IdleClient EXCEPT
        !.op = "GetLedger", !.pc = "done",
        !.sequence = sequence, !.results = results,
        !.ledger = res.ledger, !.found = res.found, !.ledgerErr = res.err,
        !.ingestedAtQuery = Len(ingested)]

CallGetLedger(sequence) ==
  /\ client.pc = "idle"
  /\ client' = GetLedgerReturn(sequence, SelectLedger(rows, sequence))
  /\ UNCHANGED <<storeVars, ingestVars>>

\* r.db.Select hands back the row more than once: the table has lost its
\* key or the query misbehaved.
CallGetLedgerMultiple(sequence) ==
  /\ client.pc = "idle"
  /\ SelectLedger(rows, sequence) # <<>>
  /\ client' = GetLedgerReturn(sequence, SelectLedger(rows, sequence)
                                           \o SelectLedger(rows, sequence))
  /\ UNCHANGED <<storeVars, ingestVars>>

\* r.db.Select fails.
CallGetLedgerFail(sequence) ==
  /\ client.pc = "idle"
  /\ client' = [IdleClient EXCEPT
                  !.op = "GetLedger", !.pc = "done", !.sequence = sequence,
                  !.ledgerErr = <<"db error">>,
                  !.ingestedAtQuery = Len(ingested)]
  /\ UNCHANGED <<storeVars, ingestVars>>

Return ==
  /\ client.pc = "done"
  /\ client' = IdleClient
  /\ UNCHANGED <<storeVars, ingestVars>>

Query ==
  \/ CallGetLedgerRange
  \/ \E request \in Requests : CallGetTransaction(request)
  \/ ReadCache
  \/ UnlockCache
  \/ QueryStore
  \/ QueryStoreFail
  \/ LookupTransaction
  \/ LookupTransactionFail
  \/ LookupTransactionConvFail
  \/ \E startLedger, endLedger \in StreamBounds :
        CallStreamLedgerRange(startLedger, endLedger)
  \/ \E startLedger, endLedger \in StreamBounds :
        CallStreamLedgerRangeFail(startLedger, endLedger)
  \/ CallStreamAllLedgers
  \/ CallStreamAllLedgersFail
  \/ \E sequence \in StreamBounds : CallGetLedger(sequence)
  \/ \E sequence \in StreamBounds : CallGetLedgerMultiple(sequence)
  \/ \E sequence \in StreamBounds : CallGetLedgerFail(sequence)
  \/ StreamDeliver
  \/ \E err \in SinkErrors : StreamSinkError(err)
  \/ StreamScanFail
  \/ StreamEnd
  \/ Return

(***************************************************************************)
(* The system: an empty database, a cold cache, one ingester, one caller.  *)
(***************************************************************************)
Init ==
  /\ rows = {}
  /\ transactions = {}
  /\ cache = [latestLedgerSeq |-> 0, latestLedgerCloseTime |-> 0]
  /\ retentionWindow \in 1..MaxRetention
  /\ ingestPc = "idle"
  /\ ingestLedger = NoLedger
  /\ ingestErr = ""
  /\ txRows = {}
  /\ txTransactions = {}
  /\ ingested = <<>>
  /\ client = IdleClient

Next == Ingest \/ Query

Spec == Init /\ [][Next]_vars

(***************************************************************************)
(* GetLedgerRange on every store and cache it can be called on: the table  *)
(* holds any ledgers of the chain or none (a database file that was        *)
(* emptied or replaced under the process), the cache is cold (a restart)   *)
(* or holds the sequence and close time of some ledger, the table's latest *)
(* or another.  No ingest runs.                                            *)
(***************************************************************************)
RowOf(s) == [sequence |-> s, meta |-> ChainLedger(s)]

TableOf(S) == {RowOf(x) : x \in S}

TransactionsOf(S) == UNION {LedgerTxRows(ChainLedger(x)) : x \in S}

CacheOf(s) ==
  IF s = 0 THEN [latestLedgerSeq |-> 0, latestLedgerCloseTime |-> 0]
  ELSE [latestLedgerSeq |-> s, latestLedgerCloseTime |-> CloseTimeOf(s)]

ReaderInit ==
  /\ \E S \in SUBSET (1..MaxSeq) :
       /\ rows = TableOf(S)
       /\ transactions = TransactionsOf(S)
  /\ \E s \in 0..MaxSeq : cache = CacheOf(s)
  /\ retentionWindow = MaxRetention
  /\ ingestPc = "idle"
  /\ ingestLedger = NoLedger
  /\ ingestErr = ""
  /\ txRows = {}
  /\ txTransactions = {}
  /\ ingested = <<>>
  /\ client = IdleClient

ReaderNext ==
  \/ CallGetLedgerRange
  \/ ReadCache
  \/ UnlockCache
  \/ QueryStore
  \/ QueryStoreFail
  \/ Return

ReaderSpec == ReaderInit /\ [][ReaderNext]_vars

(***************************************************************************)
(* One ingest on a store that holds the window of an earlier latest        *)
(* ledger, for every sequence an unsigned word can hold.                   *)
(***************************************************************************)
\* The ledgers the network can close: every sequence of the word but zero.
AllLedgerInputs == {ChainLedger(x) : x \in 1..(UintMod - 1)}

\* The sequences a store retains when latest was the last ingest with the
\* window: latest and any of the window - 1 before it.
Windows(latest, window) ==
  IF latest = 0 THEN {{}}
  ELSE {S \cup {latest} :
          S \in SUBSET {x \in 1..(latest - 1) : x >= latest + 1 - window}}

TrimInit ==
  /\ retentionWindow \in 1..MaxRetention
  /\ \E latest \in 0..(UintMod - 2) :
       /\ cache = CacheOf(latest)
       /\ \E S \in Windows(latest, retentionWindow) :
            /\ rows = TableOf(S)
            /\ transactions = TransactionsOf(S)
  /\ ingestPc = "idle"
  /\ ingestLedger = NoLedger
  /\ ingestErr = ""
  /\ txRows = {}
  /\ txTransactions = {}
  /\ ingested = <<>>
  /\ client = IdleClient

\* The ingest that is followed; behaviours end with it.
TrimBegin(ledger) ==
  /\ ingested = <<>>
  /\ ingestErr = ""
  /\ ApplyBegin(ledger)

TrimNext ==
  \/ \E ledger \in AllLedgerInputs : TrimBegin(ledger)
  \/ ApplyInsertLedger
  \/ ApplyInsertTransactions
  \/ ApplyTrim
  \/ ApplyCommit
  \/ ApplyUpdateCache
  \/ ApplyFail

TrimSpec == TrimInit /\ [][TrimNext]_vars

(***************************************************************************)
(* Properties.                                                             *)
(***************************************************************************)
\* GetLedgerRange answered from the current cache and the current store.
RangeNow ==
  GetLedgerRangeQuery(cache.latestLedgerSeq, cache.latestLedgerCloseTime, rows)

IngestedOneTo(n) == ingested = [i \in 1..n |-> i]

InFlight == {"insertLedger", "insertTransactions", "trim", "commit"}

StoreMax == IF rows = {} THEN 0 ELSE MaxOf(SequencesOf(rows))

\* C1: after the ledgers 1..N have been ingested in order with a retention
\* window W, 1 <= W <= N, GetLedgerRange returns first.sequence = N + 1 - W
\* and last.sequence = N: both for a call answered once the N-th ingest is
\* complete, and for a completed call that read the cached latest N.
C1_RetentionRange ==
  \A n \in 1..MaxSeq :
    (IngestedOneTo(n) /\ retentionWindow <= n) =>
      /\ ingestPc = "idle" =>
           /\ RangeNow.err = ""
           /\ RangeNow.range.FirstLedger.Sequence = n + 1 - retentionWindow
           /\ RangeNow.range.LastLedger.Sequence = n
      /\ ( /\ client.op = "GetLedgerRange" /\ client.pc = "done"
           /\ client.rangeErr = "" /\ client.latestLedgerSeqCache = n ) =>
           /\ client.storeRange.FirstLedger.Sequence = n + 1 - retentionWindow
           /\ client.storeRange.LastLedger.Sequence = n

C1_Witness ==
  /\ IngestedOneTo(MaxSeq) /\ retentionWindow = 2
  /\ client.op = "GetLedgerRange" /\ client.pc = "done" /\ client.rangeErr = ""
  /\ client.latestLedgerSeqCache = MaxSeq
  /\ client.storeRange.FirstLedger.Sequence = MaxSeq - 1

\* The ledger table inside the write transaction before its trim step.
RowsBeforeTrim ==
  rows \cup {[sequence |-> ingestLedger.seq, meta |-> ingestLedger]}

\* C2: trimLedgers(latest, W) deletes exactly the rows with
\* sequence < latest + 1 - W: after the trim step of an ingest the table of
\* the write transaction holds the rows it held before with
\* sequence >= latest + 1 - W, unchanged, and no others; with latest + 1 <= W
\* it holds all of them.
C2_TrimExact ==
  ingestPc = "commit" =>
    /\ txRows = {r \in RowsBeforeTrim :
                   r.sequence >= ingestLedger.seq + 1 - retentionWindow}
    /\ (ingestLedger.seq + 1 <= retentionWindow => txRows = RowsBeforeTrim)

C2_Witness ==
  /\ ingestPc = "commit"
  /\ \E r \in RowsBeforeTrim : r.sequence < ingestLedger.seq + 1 - retentionWindow
  /\ \E r \in rows : r \in txRows

\* C3: every range GetLedgerRange returns has first.sequence <= last.sequence
\* and both ledgers are rows of the store when it returns, however the call
\* interleaves with an ingest.
C3_RangeWellFormed ==
  [][ ( /\ client.pc = "queryStore" /\ client'.pc # "queryStore"
        /\ client'.rangeErr = "" ) =>
      /\ client'.storeRange.FirstLedger.Sequence <= client'.storeRange.LastLedger.Sequence
      /\ client'.storeRange.FirstLedger.Sequence \in SequencesOf(rows')
      /\ client'.storeRange.LastLedger.Sequence \in SequencesOf(rows') ]_vars

\* C4: with no ingest in flight the cached latestLedgerSeq is the largest
\* sequence of the ledger table, or zero when the table is empty, and the
\* last.sequence GetLedgerRange returns is that largest sequence.
C4_CacheCoherence ==
  ingestPc = "idle" =>
    /\ cache.latestLedgerSeq = StoreMax
    /\ rows # {} => /\ RangeNow.err = ""
                    /\ RangeNow.range.LastLedger.Sequence = MaxOf(SequencesOf(rows))

C4_Witness ==
  /\ ingestPc = "idle" /\ ingestErr = ""
  /\ Len(ingested) >= 2 /\ Cardinality(rows) >= 2
  /\ cache.latestLedgerSeq = MaxOf(SequencesOf(rows))

\* C5: a step of an ingest that is not its commit, a failing step included,
\* changes neither the committed tables nor the cache, so an ingest that
\* fails at insert, trim or commit leaves them, and the range
\* GetLedgerRange returns, as they were before it.
C5_FailedIngestChangesNothing ==
  [][ (ingestPc \in InFlight /\ ingestPc' # "updateCache") =>
      /\ rows' = rows
      /\ transactions' = transactions
      /\ cache' = cache
      /\ RangeNow' = RangeNow ]_vars

C5_Witness ==
  /\ ingestPc = "idle" /\ ingestErr = "CommitFailed"
  /\ rows # {} /\ cache.latestLedgerSeq = StoreMax

StrictlyIncreasing(q) == \A i, j \in 1..Len(q) : i < j => q[i] < q[j]

\* C6: an ingest of a ledger whose sequence is not greater than the latest
\* sequence returns OutOfOrder and changes neither the tables nor the cache;
\* the committed ingests are in strictly increasing sequence order.
C6_OutOfOrderRejected ==
  /\ [](StrictlyIncreasing(ingested))
  /\ [][ \A l \in LedgerInputs :
           ( /\ ingestPc = "idle" /\ ingestLedger' = l
             /\ LedgerSequence(l) <= cache.latestLedgerSeq ) =>
           /\ ingestPc' = "idle"
           /\ ingestErr' = "OutOfOrder"
           /\ rows' = rows /\ transactions' = transactions
           /\ cache' = cache /\ ingested' = ingested ]_vars

C6_Witness ==
  /\ ingestPc = "idle" /\ ingestErr = "OutOfOrder"
  /\ ingestLedger.seq < cache.latestLedgerSeq
  /\ cache.latestLedgerSeq = StoreMax

GetTransactionDone == client.op = "GetTransaction" /\ client.pc = "done"

\* C7: a GetTransaction response (status NOT_FOUND, SUCCESS or FAILED)
\* carries as latestLedger, latestLedgerCloseTime, oldestLedger and
\* oldestLedgerCloseTime the range the GetLedgerRange call of the same
\* request returned.
C7_ResponseCarriesRange ==
  (GetTransactionDone /\ "GetTransaction" \in {client.calls[i] : i \in 1..Len(client.calls)}) =>
    /\ client.response.LatestLedger = client.storeRange.LastLedger.Sequence
    /\ client.response.LatestLedgerCloseTime = client.storeRange.LastLedger.CloseTime
    /\ client.response.OldestLedger = client.storeRange.FirstLedger.Sequence
    /\ client.response.OldestLedgerCloseTime = client.storeRange.FirstLedger.CloseTime
    /\ client.err = NoError =>
         client.response.Status \in {TransactionStatusNotFound,
                                     TransactionStatusSuccess,
                                     TransactionStatusFailed}

C7_Witness ==
  /\ GetTransactionDone /\ client.err = NoError
  /\ client.response.Status = TransactionStatusNotFound
  /\ client.storeRange.FirstLedger.Sequence = 1
  /\ client.storeRange.LastLedger.Sequence = 2
  /\ client.response.OldestLedger = 1 /\ client.response.LatestLedger = 2
  /\ client.response.OldestLedgerCloseTime # client.response.LatestLedgerCloseTime

BlobFieldsUnset(response) ==
  /\ response.EnvelopeXDR = <<>> /\ response.EnvelopeJSON = <<>>
  /\ response.ResultXDR = <<>> /\ response.ResultJSON = <<>>
  /\ response.ResultMetaXDR = <<>> /\ response.ResultMetaJSON = <<>>
  /\ response.DiagnosticEventsXDR = <<>> /\ response.DiagnosticEventsJSON = <<>>

\* C8: in a GetTransaction response (a return without error) the status is
\* NOT_FOUND exactly when the reader reported no transaction, SUCCESS exactly
\* when it returned a transaction with Successful true, FAILED exactly when
\* it returned one with Successful false; a NOT_FOUND response leaves
\* applicationOrder, feeBump, ledger, createdAt and the blob fields unset; a
\* return with an error carries no status.
C8_StatusClassification ==
  GetTransactionDone =>
    /\ client.err = NoError =>
         /\ client.response.Status = TransactionStatusNotFound
              <=> client.txErr = "ErrNoTransaction"
         /\ client.response.Status = TransactionStatusSuccess
              <=> (client.txErr = "" /\ client.tx.Successful)
         /\ client.response.Status = TransactionStatusFailed
              <=> (client.txErr = "" /\ ~client.tx.Successful)
         /\ client.response.Status = TransactionStatusNotFound =>
              /\ client.response.ApplicationOrder = 0
              /\ client.response.FeeBump = FALSE
              /\ client.response.Ledger = 0
              /\ client.response.LedgerCloseTime = 0
              /\ BlobFieldsUnset(client.response)
    /\ client.err # NoError => client.response.Status = ""

C8_Witness ==
  /\ GetTransactionDone /\ client.err = NoError
  /\ client.response.Status = TransactionStatusFailed
  /\ client.txErr = "" /\ ~client.tx.Successful
  /\ client.response.Ledger = 2 /\ client.response.ApplicationOrder = 1

IsHexDigit(c) == \E i \in 1..16 : HexDigits[i] = c

\* The string is the hex form of exactly 32 bytes.
DecodesToHash(h) == Len(h) = 2 * HashLen /\ \A i \in 1..Len(h) : IsHexDigit(h[i])

RejectedBeforeAnyRead ==
  /\ client.err.Code = InvalidParams
  /\ client.response = ZeroResponse
  /\ client.calls = <<>>
  /\ client.latestLedgerSeqCache = 0 /\ client.storeRange = ZeroLedgerRange
  /\ client.txErr = ""

\* C9 as stated: a request whose hash does not decode to exactly 32 bytes is
\* rejected with InvalidParams and an empty response before GetLedgerRange
\* or the transaction reader is called, and whenever the string has not the
\* length of 32 hex-encoded bytes the message is "unexpected hash length (n)".
C9_AsStated ==
  (GetTransactionDone /\ ~DecodesToHash(client.request.Hash)) =>
    /\ RejectedBeforeAnyRead
    /\ Len(client.request.Hash) # 2 * HashLen =>
         client.err.Message = <<"unexpected hash length", Len(client.request.Hash)>>

\* C9 amended: such a request is rejected with InvalidParams and an empty
\* response before any read; the message is "unexpected hash length (n)"
\* when the format is valid and n div 2 # 32, that is for every length but
\* 64 and 65; a string of 65 characters passes the length check and is
\* rejected by hex.Decode with "incorrect hash: ...", as is one of 64
\* characters with a character that is no hex digit.
C9_HashValidation ==
  (GetTransactionDone /\ ~DecodesToHash(client.request.Hash)) =>
    /\ RejectedBeforeAnyRead
    /\ IsValidFormat(client.request.Format) = "" =>
         /\ Len(client.request.Hash) \notin {2 * HashLen, 2 * HashLen + 1} =>
              client.err.Message =
                <<"unexpected hash length", Len(client.request.Hash)>>
         /\ Len(client.request.Hash) \in {2 * HashLen, 2 * HashLen + 1} =>
              client.err.Message[1] = "incorrect hash"

C9_Witness ==
  /\ GetTransactionDone
  /\ client.request.Hash = <<"a", "b">>
  /\ client.err = [Code |-> InvalidParams, Message |-> <<"unexpected hash length", 2>>]
  /\ rows # {} /\ cache.latestLedgerSeq # 0

StreamRange == client.startLedger .. client.endLedger

\* C10: on a store that does not change, a StreamLedgerRange(start, end, f)
\* that runs to its end has invoked f once for each stored ledger with
\* start <= sequence <= end, in strictly ascending sequence order, and for
\* no other ledger; until then f has been invoked on ledgers of the range
\* in that order.  What is delivered is fixed by the store and the range, so
\* a second call delivers the same.
C10_StreamDeliversRange ==
  (client.op = "StreamLedgerRange" /\ client.ingestedAtQuery = Len(ingested)) =>
    LET d == client.delivered
    IN /\ \A i, j \in 1..Len(d) : i < j => d[i].seq < d[j].seq
       /\ \A i \in 1..Len(d) :
            /\ d[i].seq \in StreamRange
            /\ [sequence |-> d[i].seq, meta |-> d[i]] \in rows
       /\ (client.pc = "done" /\ client.streamErr = "") =>
            \A r \in rows :
              r.sequence \in StreamRange => \E i \in 1..Len(d) : d[i] = r.meta

C10_Witness ==
  /\ client.op = "StreamLedgerRange" /\ client.pc = "done" /\ client.streamErr = ""
  /\ client.ingestedAtQuery = Len(ingested)
  /\ client.startLedger = 2 /\ client.endLedger = 3
  /\ Len(client.delivered) = 2
  /\ \E r \in rows : r.sequence = 1

Streams == {"StreamLedgerRange", "StreamAllLedgers"}

\* C11: when the sink of StreamLedgerRange or StreamAllLedgers signals done
\* after receiving a ledger, the stream call ends and returns no error, and
\* the sink is invoked for no later ledger (the cursor is closed).
C11_SinkDoneStopsWithoutError ==
  (client.op \in Streams /\ client.fReturned = "done") =>
    /\ client.pc = "done"
    /\ client.q = <<>>
    /\ client.streamErr = ""

\* The sequences still stored: the committed ingests at or above the cutoff
\* of the latest one.
LatestIngested == IF ingested = <<>> THEN 0 ELSE ingested[Len(ingested)]
Retained ==
  {ingested[i] : i \in 1..Len(ingested)}
    \cap {x \in 1..MaxSeq : x >= LatestIngested + 1 - retentionWindow}

\* C12: on a store that has not changed since the call, GetLedger(sequence)
\* returns found = true and the ledger that was ingested with that sequence
\* when it was ingested and is not below the trim cutoff, found = false with
\* no error and no ledger when it was never ingested or was trimmed, and an
\* error with found = false when the query returned more than one row or
\* failed.
C12_GetLedgerRoundTrip ==
  (client.op = "GetLedger" /\ client.pc = "done"
     /\ client.ingestedAtQuery = Len(ingested)) =>
    /\ Len(client.results) > 1 => client.ledgerErr # <<>>
    /\ client.ledgerErr # <<>> => (~client.found /\ client.ledger = NoLedger)
    /\ client.ledgerErr = <<>> =>
         /\ client.found <=> client.sequence \in Retained
         /\ client.found =>
              /\ client.ledger = ChainLedger(client.sequence)
              /\ LedgerSequence(client.ledger) = client.sequence
         /\ ~client.found => client.ledger = NoLedger

C12_Witness ==
  /\ client.op = "GetLedger" /\ client.pc = "done" /\ client.ledgerErr = <<>>
  /\ client.ingestedAtQuery = Len(ingested)
  /\ IngestedOneTo(MaxSeq) /\ retentionWindow = 2
  /\ client.sequence = 2 /\ client.found /\ client.ledger = ChainLedger(2)
  /\ 1 \notin SequencesOf(rows)

\* C14: a GetTransaction response with status SUCCESS or NOT_FOUND carries no
\* diagnostic events, and a FAILED response carries all the diagnostic
\* events stored with the transaction, in the format asked for.
C14_DiagnosticEventsOnlyWhenFailed ==
  (GetTransactionDone /\ client.err = NoError) =>
    /\ client.response.Status # TransactionStatusFailed =>
         /\ client.response.DiagnosticEventsXDR = <<>>
         /\ client.response.DiagnosticEventsJSON = <<>>
    /\ client.response.Status = TransactionStatusFailed =>
         IF client.request.Format = FormatJSON
           THEN client.response.DiagnosticEventsJSON = jsonifySlice(client.tx.Events)
           ELSE client.response.DiagnosticEventsXDR = base64EncodeSlice(client.tx.Events)

\* C15: GetTransaction turns no store error into a response: when
\* GetLedgerRange fails (the empty store included) it returns InternalError
\* with an empty response and the transaction reader is not called; when the
\* lookup fails with another error than not-found it returns InternalError
\* and no status; a return without error had no store error, and its status
\* is NOT_FOUND exactly when the reader reported not-found.
C15_StoreErrorsSurface ==
  GetTransactionDone =>
    /\ client.rangeErr # "" =>
         /\ client.err.Code = InternalError
         /\ client.err.Message = <<"unable to get ledger range", client.rangeErr>>
         /\ client.response = ZeroResponse
         /\ client.calls = <<"GetLedgerRange">>
         /\ client.txErr = ""
    /\ client.txErr \notin {"", "ErrNoTransaction"} =>
         /\ client.err.Code = InternalError
         /\ client.response.Status = ""
    /\ client.err = NoError =>
         /\ client.rangeErr = ""
         /\ client.txErr \in {"", "ErrNoTransaction"}
         /\ client.response.Status = TransactionStatusNotFound
              <=> client.txErr = "ErrNoTransaction"

C15_Witness ==
  /\ GetTransactionDone
  /\ client.rangeErr = "ErrEmptyDB"
  /\ client.err.Code = InternalError
  /\ client.response = ZeroResponse
  /\ client.request.Hash = HashString(1, 1)

\* C17: in every GetTransaction response with status SUCCESS or FAILED,
\* oldestLedger <= ledger <= latestLedger, whatever an ingest commits between
\* the request's GetLedgerRange and its lookup.
C17_SnapshotConsistent ==
  (GetTransactionDone /\ client.err = NoError
     /\ client.response.Status \in {TransactionStatusSuccess, TransactionStatusFailed}) =>
    /\ client.response.OldestLedger <= client.response.Ledger
    /\ client.response.Ledger <= client.response.LatestLedger

\* C19: a step of a read operation (GetLedger, GetLedgerRange on either
\* path, StreamLedgerRange, StreamAllLedgers, GetTransaction), successful or
\* failing, leaves the ledger table, the transaction table, the cache and
\* the tables of the write transaction as they are; a slow-path
\* GetLedgerRange does not fill the cache; the cache read lock is not held
\* when GetLedgerRange queries the store or afterwards.
C19_ReadsChangeNothing ==
  /\ [](client.pc \notin {"readCache", "unlockCache"} => ~client.cacheRLocked)
  /\ [][ client' # client =>
          /\ rows' = rows /\ transactions' = transactions /\ cache' = cache
          /\ txRows' = txRows /\ txTransactions' = txTransactions ]_vars

C19_Witness ==
  /\ client.op = "GetLedgerRange" /\ client.pc = "done" /\ client.rangeErr = ""
  /\ client.latestLedgerSeqCache = 0
  /\ client.storeRange.LastLedger.Sequence = 1
  /\ cache.latestLedgerSeq = 0 /\ rows # {}
  /\ ~client.cacheRLocked

IsPrefix(a, b) == Len(a) <= Len(b) /\ a = SubSeq(b, 1, Len(a))

\* What StreamLedgerRange(min, max, f) scans on the store as it is.
MinToMaxScan ==
  IF rows = {} THEN <<>>
  ELSE SelectLedgerRange(rows, MinOf(SequencesOf(rows)), MaxOf(SequencesOf(rows)))

\* C20: on a store that has not changed since the call, StreamAllLedgers(f)
\* invokes f on the ledgers StreamLedgerRange(min, max, f) invokes it on, in
\* the same order: what it has delivered and has still to deliver is that
\* scan, a sink that ends the stream leaves a prefix of it, and a call that
\* ran to the end delivered all of it; on an empty store f is not invoked
\* and the call returns no error.
C20_StreamAllIsMinToMax ==
  (client.op = "StreamAllLedgers" /\ client.ingestedAtQuery = Len(ingested)) =>
    /\ IsPrefix(client.delivered, MinToMaxScan)
    /\ client.pc = "stream" => client.delivered \o client.q = MinToMaxScan
    /\ (client.pc = "done" /\ client.streamErr = "") => client.delivered = MinToMaxScan
    /\ (rows = {} /\ client.streamErr # "query failed") =>
         /\ client.delivered = <<>>
         /\ client.streamErr = ""

C20_Witness ==
  /\ client.op = "StreamAllLedgers" /\ client.pc = "done" /\ client.streamErr = ""
  /\ client.ingestedAtQuery = Len(ingested)
  /\ Len(client.delivered) = 2
  /\ client.delivered[1].seq = 2 /\ client.delivered[2].seq = 3

RangeCallDone == client.op = "GetLedgerRange" /\ client.pc = "done"

\* C13: a GetLedgerRange whose store query succeeded returns ErrEmptyDB
\* exactly when the ledger table has no rows, on the fast path (cached
\* latest non-zero) as on the slow path; with an empty table it returns no
\* range, in particular none built from the cache.
C13_EmptyStoreError ==
  RangeCallDone =>
    /\ client.rangeErr # RangeQueryFailed.err =>
         (client.rangeErr = "ErrEmptyDB" <=> rows = {})
    /\ rows = {} =>
         /\ client.rangeErr # ""
         /\ client.storeRange = ZeroLedgerRange

C13_Witness ==
  /\ RangeCallDone
  /\ client.latestLedgerSeqCache # 0
  /\ rows = {}
  /\ client.rangeErr = "ErrEmptyDB"

\* The cache holds the sequence and close time of the table's latest row.
CacheIsLatestRow ==
  /\ rows # {}
  /\ cache = CacheOf(MaxOf(SequencesOf(rows)))

\* C16: on every store whose latest row is the ledger in the cache, the
\* range of the fast path (oldest row from the store, last from the cache)
\* is the range of the slow path (rows at MIN and MAX, first = result[0],
\* last = result[len-1]), the store of one row included, and a completed
\* fast-path call has returned what the slow path returns on that store.
C16_PathsAgree ==
  CacheIsLatestRow =>
    /\ RangeFastPath(cache.latestLedgerSeq, cache.latestLedgerCloseTime, rows)
         = RangeSlowPath(rows)
    /\ (RangeCallDone /\ client.rangeErr # RangeQueryFailed.err) =>
         /\ client.latestLedgerSeqCache # 0
         /\ [range |-> client.storeRange, err |-> client.rangeErr]
              = RangeSlowPath(rows)

C16_Witness ==
  /\ CacheIsLatestRow
  /\ RangeCallDone /\ client.rangeErr = ""
  /\ client.latestLedgerSeqCache = MaxSeq
  /\ Cardinality(rows) >= 2
  /\ client.storeRange.FirstLedger.Sequence = 1
  /\ client.storeRange.LastLedger.Sequence = MaxSeq

IntMax(a, b) == IF a >= b THEN a ELSE b

\* C18: for every latest the word can hold and every window >= 1 the cutoff
\* trimLedgers works with (zero when it returns at once) is
\* max(0, latest + 1 - window) over the integers: after the trim step the
\* row of latest is in the table, no row with
\* sequence < latest + 1 - window is, and at most window rows are.
C18_TrimWholeRange ==
  ingestPc = "commit" =>
    LET latest == LedgerSequence(ingestLedger)
        cutoff == IF TrimIsNoop(latest, retentionWindow) THEN 0
                  ELSE TrimCutoff(latest, retentionWindow)
    IN /\ cutoff = IntMax(0, latest + 1 - retentionWindow)
       /\ latest \in SequencesOf(txRows)
       /\ \A r \in txRows : r.sequence >= latest + 1 - retentionWindow
       /\ Cardinality(txRows) <= retentionWindow

=============================================================================
